---- MODULE Spec2Model ----
(***************************************************************************)
(* pyani: the anib and plot subcommands.                                   *)
(*                                                                         *)
(*   Spec      subcmd_anib, with fragment_fasta_file run step by step      *)
(*   FairSpec  Spec with weak fairness on the steps of the running call    *)
(*   SpecIds   the fragment counter and the fragment ID format alone       *)
(*   SpecEnum  the enumeration of comparisons (itertools.permutations)     *)
(*   SpecJobs  generate_joblist                                            *)
(*   SpecPlot  subcmd_plot and write_run_heatmaps                          *)
(***************************************************************************)
EXTENDS Integers, Sequences, FiniteSets, TLC

VARIABLES
    \* command line (args) of subcmd_anib
    fragsize, indir,
    \* subcmd_anib: position, exception that ended it, locals
    pc, exc, session, run, genome_ids, genomes, gi, printed,
    \* the setup stage that failed in this invocation, if any
    failed,
    \* what outlives one invocation: the database, the fragment files, the
    \* number of the invocation and how each earlier one ended
    store, files, invocation, outcomes,
    \* fragment_fasta_file: position, pending exception, locals
    fpc, fexc, records, idx, count, outseqs, sizedict,
    \* the fragment counter alone: records begun, fragments appended to
    \* outseqs, the counter and the ID of the last fragment
    idrecs, idfrags, idcount, newseq_id,
    \* the enumeration of comparisons: the genomes of the run, the list made
    enum_genomes, comparisons,
    \* generate_joblist: position, arguments, result, exception
    jpc, comparisons_to_run, existingfiles, joblist, jexc,
    \* subcmd_plot: position, exception, args.run_id, its locals, the calls of
    \* write_run_heatmaps made so far, the graphics files written
    ppc, pexc, args_run_id, run_ids, ri, calls, outfiles

idsVars == <<idrecs, idfrags, idcount, newseq_id>>
enumVars == <<enum_genomes, comparisons>>
jobsVars == <<jpc, comparisons_to_run, existingfiles, joblist, jexc>>
plotVars == <<ppc, pexc, args_run_id, run_ids, ri, calls, outfiles>>

\* what subcmd_anib never writes: its command line, and the state of the
\* other functions
fixedVars == <<fragsize, indir, idsVars, enumVars, jobsVars, plotVars>>
anibVars == <<fixedVars, pc, exc, session, run, genome_ids, genomes, gi,
              printed, failed, store, files, invocation, outcomes>>
fragVars == <<fpc, fexc, records, idx, count, outseqs, sizedict>>
vars == <<anibVars, fragVars>>

-----------------------------------------------------------------------------
(* Bounds of the model *)

MaxGenomes == 2
MaxRecs == 2
MaxLen == 3
MaxFragsize == 2

\* the largest number of fragments of one genome when fragsize >= 1, plus one:
\* only a loop that never ends reaches it
LoopCap == MaxRecs * MaxLen + 1

FragSizes == -1 .. MaxFragsize
Invocations == 1 .. 2

-----------------------------------------------------------------------------
(* Fragment IDs: f"frag{count:05d}" *)

IDWidth == 5

RECURSIVE Digits(_)
Digits(n) ==
    IF n < 10 THEN <<n>> ELSE Append(Digits(n \div 10), n % 10)

RECURSIVE ZeroPad(_, _)
ZeroPad(ds, width) ==
    IF Len(ds) >= width THEN ds ELSE ZeroPad(<<0>> \o ds, width)

Format05d(n) == ZeroPad(Digits(n), IDWidth)

\* newseq.id = f"frag{count:05d}"
FragId(n) == [prefix |-> "frag", digits |-> Format05d(n)]

RECURSIVE DigitsValue(_)
DigitsValue(ds) ==
    IF ds = <<>> THEN 0
    ELSE 10 * DigitsValue(SubSeq(ds, 1, Len(ds) - 1)) + ds[Len(ds)]

-----------------------------------------------------------------------------
(* Python slicing: len(seq[a:b]) for a sequence of length n *)

Min(a, b) == IF a < b THEN a ELSE b
Max(a, b) == IF a > b THEN a ELSE b

SliceIndex(i, n) == IF i < 0 THEN Max(i + n, 0) ELSE Min(i, n)

SliceLen(n, a, b) == Max(SliceIndex(b, n) - SliceIndex(a, n), 0)

-----------------------------------------------------------------------------
(* fragment_fasta_file *)

\* a local variable: not yet assigned, or bound to a value
Unbound == <<>>
Bound(v) == <<v>>

\* a variant: a loop that stops before a fragment shorter than size
WhileCondDropTail(i, n, size) == i + size <= n
\* while idx < len(seq)
WhileCond(i, n, size) == i < n

\* a variant: the offset is not advanced
NextIdxStuck(i, size) == i
\* idx += fragsize
NextIdx(i, size) == i + size

\* a variant: the counter starts again with every record
CountResetPerRecord(c) == 0
\* count is set before the for loop only: a new record leaves it as it is
CountAtRecord(c) == c

\* the genome whose file the running call fragments
CurrentGenome == genomes[gi]

FragEnter ==
    /\ fpc' = "for"
    /\ fexc' = "none"
    /\ records' = <<>>
    /\ idx' = 0
    /\ count' = 0
    /\ outseqs' = <<>>
    /\ sizedict' = <<>>

FragLeave ==
    /\ fpc' = "idle"
    /\ fexc' = "none"
    /\ records' = <<>>
    /\ idx' = 0
    /\ count' = 0
    /\ outseqs' = <<>>
    /\ sizedict' = <<>>

\* for seq in SeqIO.parse(inpath, "fasta"): the parser yields the next record
FragNextRecord ==
    /\ pc = "fragmenting" /\ fpc = "for"
    /\ Len(records) < MaxRecs
    /\ \E n \in 0 .. MaxLen :
        /\ records' = Append(records, n)
        /\ idx' = 0
        /\ count' = CountAtRecord(count)
        /\ fpc' = "while"
    /\ UNCHANGED <<fexc, outseqs, sizedict, anibVars>>

\* the parser is exhausted: the for loop ends
FragEndOfFile ==
    /\ pc = "fragmenting" /\ fpc = "for"
    /\ fpc' = "write"
    /\ UNCHANGED <<fexc, records, idx, count, outseqs, sizedict, anibVars>>

\* the parser cannot read the input: the exception leaves the function
FragParseError ==
    /\ pc = "fragmenting" /\ fpc = "for"
    /\ fpc' = "raised"
    /\ fexc' = "ValueError"
    /\ UNCHANGED <<records, idx, count, outseqs, sizedict, anibVars>>

\* one pass of the while loop's body
FragEmit ==
    /\ pc = "fragmenting" /\ fpc = "while"
    /\ WhileCond(idx, records[Len(records)], fragsize)
    /\ count < LoopCap
    /\ LET seqlen == records[Len(records)]
           newid == FragId(count + 1)
           newlen == SliceLen(seqlen, idx, idx + fragsize)
           newseq == [id |-> newid, name |-> Len(records), len |-> newlen]
       IN  /\ count' = count + 1
           /\ outseqs' = Append(outseqs, newseq)
           /\ sizedict' = [k \in (DOMAIN sizedict) \cup {newid} |->
                              IF k = newid THEN newlen ELSE sizedict[k]]
           /\ idx' = NextIdx(idx, fragsize)
    /\ UNCHANGED <<fpc, fexc, records, anibVars>>

\* the while loop's test fails: on to the next record
FragRecordDone ==
    /\ pc = "fragmenting" /\ fpc = "while"
    /\ ~WhileCond(idx, records[Len(records)], fragsize)
    /\ fpc' = "for"
    /\ UNCHANGED <<fexc, records, idx, count, outseqs, sizedict, anibVars>>

\* SeqIO.write(outseqs, fragpath, "fasta"): it writes the whole file, or cannot
\* open it (the file is as it was), or fails part-way (a truncated file stays)
FragWrite ==
    /\ pc = "fragmenting" /\ fpc = "write"
    /\ \E outcome \in {"ok", "open_fails", "write_fails"} :
        /\ files' = [files EXCEPT ![CurrentGenome] =
                        CASE outcome = "ok" -> "complete"
                          [] outcome = "open_fails" -> @
                          [] outcome = "write_fails" -> "partial"]
        /\ fpc' = IF outcome = "ok" THEN "return" ELSE "raised"
        /\ fexc' = IF outcome = "ok" THEN "none" ELSE "OSError"
    /\ UNCHANGED <<records, idx, count, outseqs, sizedict>>
    /\ UNCHANGED <<fixedVars, pc, exc, session, run, genome_ids, genomes,
                   gi, printed, failed, store, invocation, outcomes>>

-----------------------------------------------------------------------------
(* subcmd_anib *)

Ended(e) ==
    /\ pc' = "ended"
    /\ exc' = e
    /\ outcomes' = Append(outcomes, e)

\* a variant: the run is added as complete
NewRunComplete == [method |-> "ANIb", status |-> "complete", genomes |-> {},
                   comparisons |-> {}, matrices |-> "None"]
\* add_run(session, method="ANIb", ..., status="started", name=name)
NewRun == [method |-> "ANIb", status |-> "started", genomes |-> {},
           comparisons |-> {}, matrices |-> "None"]

\* session = get_session(args.dbpath), any exception: SystemExit(1)
GetSession ==
    /\ pc = "get_session"
    /\ \E ok \in BOOLEAN :
        IF ok
        THEN /\ session' = TRUE
             /\ pc' = "add_run"
             /\ UNCHANGED <<exc, outcomes, failed>>
        ELSE /\ Ended("SystemExit")
             /\ failed' = "get_session"
             /\ UNCHANGED session
    /\ UNCHANGED <<fixedVars, run, genome_ids, genomes, gi, printed,
                   store, files, invocation, fragVars>>

\* run = add_run(...), PyaniORMException: SystemExit(1); anything else is not
\* caught
AddRun ==
    /\ pc = "add_run"
    /\ \E outcome \in {"ok", "PyaniORMException", "Exception"} :
        CASE outcome = "ok" ->
                /\ store' = Append(store, NewRun)
                /\ run' = Len(store) + 1
                /\ pc' = "add_run_genomes"
                /\ UNCHANGED <<exc, outcomes, failed>>
          [] outcome = "PyaniORMException" ->
                /\ Ended("SystemExit")
                /\ failed' = "add_run"
                /\ UNCHANGED <<store, run>>
          [] outcome = "Exception" ->
                /\ Ended("Exception")
                /\ failed' = "add_run"
                /\ UNCHANGED <<store, run>>
    /\ UNCHANGED <<fixedVars, session, genome_ids, genomes, gi, printed,
                   files, invocation, fragVars>>

\* a variant: the handler goes on with no genomes
GenomesHandlerBindsEmpty(ids) == Bound({})
\* the handler of PyaniORMException around add_run_genomes: it logs the error
\* and falls through to the next statement, genome_ids never assigned
GenomesHandler(ids) == ids

\* genome_ids = add_run_genomes(session, run, args.indir, ...)
AddRunGenomes ==
    /\ pc = "add_run_genomes"
    /\ \E outcome \in {"ok", "PyaniORMException", "Exception"} :
        CASE outcome = "ok" ->
                /\ genome_ids' = Bound(1 .. indir)
                /\ store' = [store EXCEPT ![run].genomes = 1 .. indir]
                /\ pc' = "log_genome_ids"
                /\ UNCHANGED <<exc, outcomes, failed>>
          [] outcome = "PyaniORMException" ->
                /\ genome_ids' = GenomesHandler(genome_ids)
                /\ pc' = "log_genome_ids"
                /\ failed' = "add_run_genomes"
                /\ UNCHANGED <<store, exc, outcomes>>
          [] outcome = "Exception" ->
                /\ Ended("Exception")
                /\ failed' = "add_run_genomes"
                /\ UNCHANGED <<store, genome_ids>>
    /\ UNCHANGED <<fixedVars, session, run, genomes, gi, printed, files,
                   invocation, fragVars>>

\* logger.info(f"\t...added genome IDs: {genome_ids}"): reading a local that
\* was never assigned raises UnboundLocalError
LogGenomeIds ==
    /\ pc = "log_genome_ids"
    /\ IF genome_ids = Unbound
       THEN Ended("UnboundLocalError")
       ELSE /\ pc' = "collect_genomes"
            /\ UNCHANGED <<exc, outcomes>>
    /\ UNCHANGED <<fixedVars, session, run, genome_ids, genomes, gi,
                   printed, failed, store, files, invocation, fragVars>>

RECURSIVE SetToSeq(_)
SetToSeq(S) ==
    IF S = {} THEN <<>>
    ELSE LET m == CHOOSE x \in S : \A y \in S : x <= y
         IN  <<m>> \o SetToSeq(S \ {m})

\* genomes = run.genomes.all()
CollectGenomes ==
    /\ pc = "collect_genomes"
    /\ genomes' = SetToSeq(store[run].genomes)
    /\ pc' = "makedirs"
    /\ UNCHANGED <<fixedVars, exc, session, run, genome_ids, gi, printed,
                   failed, store, files, invocation, outcomes, fragVars>>

\* os.makedirs(args.outdir, exist_ok=True), IOError: SystemError(1)
MakeOutdir ==
    /\ pc = "makedirs"
    /\ \E ok \in BOOLEAN :
        IF ok
        THEN /\ pc' = "subdirs"
             /\ UNCHANGED <<exc, outcomes, failed>>
        ELSE /\ Ended("SystemError")
             /\ failed' = "makedirs"
    /\ UNCHANGED <<fixedVars, session, run, genome_ids, genomes, gi,
                   printed, store, files, invocation, fragVars>>

\* os.makedirs(fragdir), os.makedirs(blastdbdir): outside any try
MakeSubdirs ==
    /\ pc = "subdirs"
    /\ \E ok \in BOOLEAN :
        IF ok
        THEN /\ pc' = "frag_loop"
             /\ gi' = 1
             /\ UNCHANGED <<exc, outcomes, failed>>
        ELSE /\ Ended("OSError")
             /\ failed' = "subdirs"
             /\ UNCHANGED gi
    /\ UNCHANGED <<fixedVars, session, run, genome_ids, genomes, printed,
                   store, files, invocation, fragVars>>

\* for genome in genomes: fragment_fasta_file(genome.path, fragdir, fragsize)
FragCall ==
    /\ pc = "frag_loop"
    /\ gi <= Len(genomes)
    /\ pc' = "fragmenting"
    /\ FragEnter
    /\ UNCHANGED <<fixedVars, exc, session, run, genome_ids, genomes, gi,
                   printed, failed, store, files, invocation, outcomes>>

\* the call returns: print(fragpath, len(fraglengths)), next genome
FragReturn ==
    /\ pc = "fragmenting" /\ fpc = "return"
    /\ printed' = printed \cup {CurrentGenome}
    /\ gi' = gi + 1
    /\ pc' = "frag_loop"
    /\ FragLeave
    /\ UNCHANGED <<fixedVars, exc, session, run, genome_ids, genomes,
                   failed, store, files, invocation, outcomes>>

\* a variant: the loop skips a genome whose call failed and goes on
SwallowFragmentException(e) ==
    /\ printed' = printed \cup {CurrentGenome}
    /\ gi' = gi + 1
    /\ pc' = "frag_loop"
    /\ UNCHANGED <<exc, outcomes>>
\* what the for loop of subcmd_anib does with an exception of the call: there
\* is no try around it, the exception ends subcmd_anib
OnFragmentException(e) ==
    /\ Ended(e)
    /\ UNCHANGED <<printed, gi>>

FragRaise ==
    /\ pc = "fragmenting" /\ fpc = "raised"
    /\ OnFragmentException(fexc)
    /\ FragLeave
    /\ UNCHANGED <<fixedVars, session, run, genome_ids, genomes, failed,
                   store, files, invocation>>

\* raise NotImplementedError, after the loop
NotImplemented ==
    /\ pc = "frag_loop"
    /\ gi > Len(genomes)
    /\ Ended("NotImplementedError")
    /\ UNCHANGED <<fixedVars, session, run, genome_ids, genomes, gi,
                   printed, failed, store, files, invocation, fragVars>>

\* subcmd_anib is run again, same command line, same database and directory
Rerun ==
    /\ pc = "ended"
    /\ invocation + 1 \in Invocations
    /\ invocation' = invocation + 1
    /\ pc' = "get_session"
    /\ exc' = "none"
    /\ session' = FALSE
    /\ run' = 0
    /\ genome_ids' = Unbound
    /\ genomes' = <<>>
    /\ gi' = 0
    /\ printed' = {}
    /\ failed' = "none"
    /\ UNCHANGED <<fixedVars, store, files, outcomes, fragVars>>

\* no call of fragment_fasta_file is running
FragIdle ==
    /\ fpc = "idle"
    /\ fexc = "none"
    /\ records = <<>>
    /\ idx = 0
    /\ count = 0
    /\ outseqs = <<>>
    /\ sizedict = <<>>

\* subcmd_anib is entered for the first time, on an empty database
AnibInit ==
    /\ pc = "get_session"
    /\ exc = "none"
    /\ session = FALSE
    /\ run = 0
    /\ genome_ids = Unbound
    /\ genomes = <<>>
    /\ gi = 0
    /\ printed = {}
    /\ failed = "none"
    /\ store = <<>>
    /\ files = [g \in 1 .. MaxGenomes |-> "absent"]
    /\ invocation = 1
    /\ outcomes = <<>>
    /\ FragIdle

IdsIdle ==
    /\ idrecs = 0
    /\ idfrags = 0
    /\ idcount = 0
    /\ newseq_id = Unbound

EnumIdle ==
    /\ enum_genomes = <<>>
    /\ comparisons = Unbound

JobsIdle ==
    /\ jpc = "idle"
    /\ comparisons_to_run = <<>>
    /\ existingfiles = Unbound
    /\ joblist = Unbound
    /\ jexc = "none"

PlotIdle ==
    /\ ppc = "idle"
    /\ pexc = "none"
    /\ args_run_id = <<>>
    /\ run_ids = <<>>
    /\ ri = 0
    /\ calls = <<>>
    /\ outfiles = {}

Init ==
    /\ fragsize \in FragSizes
    /\ indir \in 0 .. MaxGenomes
    /\ AnibInit
    /\ IdsIdle /\ EnumIdle /\ JobsIdle /\ PlotIdle

FragStep ==
    \/ FragNextRecord
    \/ FragEndOfFile
    \/ FragParseError
    \/ FragEmit
    \/ FragRecordDone
    \/ FragWrite

Next ==
    \/ GetSession
    \/ AddRun
    \/ AddRunGenomes
    \/ LogGenomeIds
    \/ CollectGenomes
    \/ MakeOutdir
    \/ MakeSubdirs
    \/ FragCall
    \/ FragStep
    \/ FragReturn
    \/ FragRaise
    \/ NotImplemented
    \/ Rerun

Spec == Init /\ [][Next]_vars

\* the scheduler keeps running the call in progress: a step of
\* fragment_fasta_file that can be taken is taken
FairSpec == Spec /\ WF_vars(FragStep)

\* the exit status of the process: SystemExit(1) sets it, an exception that
\* nothing catches makes the interpreter leave with status 1
ExitStatus(e) == IF e = "none" THEN 0 ELSE 1

-----------------------------------------------------------------------------
(* Properties of Spec and FairSpec *)

Ceil(n, d) == (n + d - 1) \div d

RECURSIVE SumSeq(_)
SumSeq(q) == IF q = <<>> THEN 0 ELSE q[1] + SumSeq(Tail(q))

RECURSIVE SumValues(_, _)
SumValues(f, keys) ==
    IF keys = {} THEN 0
    ELSE LET k == CHOOSE x \in keys : TRUE
         IN  f[k] + SumValues(f, keys \ {k})

FragmentsOf(i) == {k \in 1 .. Len(outseqs) : outseqs[k].name = i}

Returning == pc = "fragmenting" /\ fpc = "return"

\* C1: when fragment_fasta_file returns for a fragment size of at least 1,
\* record i of length L_i has given ceil(L_i / fragsize) fragments, the
\* lengths in the returned map sum to the total length of the records, no two
\* fragments share an ID and the map has one entry per fragment.
C1_FragmentCounts ==
    (Returning /\ fragsize >= 1) =>
        /\ \A i \in 1 .. Len(records) :
              Cardinality(FragmentsOf(i)) = Ceil(records[i], fragsize)
        /\ SumValues(sizedict, DOMAIN sizedict) = SumSeq(records)
        /\ \A j, k \in 1 .. Len(outseqs) :
              outseqs[j].id = outseqs[k].id => j = k
        /\ Cardinality(DOMAIN sizedict) = Len(outseqs)

C1_Witness ==
    /\ Returning
    /\ fragsize = 2
    /\ records = <<3, 1>>
    /\ Len(outseqs) = 3

\* the ordered pairs of distinct genomes of a run: its comparison jobs
JobsOf(r) ==
    {<<q, s>> \in store[r].genomes \X store[r].genomes : q # s}

EnvironmentFailures ==
    {"SystemExit", "Exception", "UnboundLocalError", "SystemError", "OSError",
     "ValueError"}

\* C3: a second run of subcmd_anib over the store the first run left, for two
\* genomes or more and a fragment size of at least 1, neither
\* run hit by a failure of the database, the directories or the files, ends
\* normally like the first, has every comparison of the run attached to it as
\* already computed, and its summary matrices are those of the first run.
C3_SecondRunIdempotent ==
    ( /\ invocation = 2
      /\ pc = "ended"
      /\ indir >= 2
      /\ fragsize >= 1
      /\ \A k \in 1 .. Len(outcomes) : outcomes[k] \notin EnvironmentFailures )
    =>
        /\ outcomes = <<"none", "none">>
        /\ Len(store) = 2
        /\ store[2].comparisons = JobsOf(2)
        /\ store[2].matrices # "None"
        /\ store[2].matrices = store[1].matrices

\* C4: a run is created "started"; a run of the store is "complete" only if
\* all its comparisons are attached and its matrices are written; an
\* invocation that ended by an exception leaves its run not "complete".
C4_RunStatus ==
    /\ \A r \in 1 .. Len(store) :
          store[r].status = "complete" =>
              /\ store[r].comparisons = JobsOf(r)
              /\ store[r].matrices # "None"
    /\ pc = "add_run_genomes" => store[run].status = "started"
    /\ (pc = "ended" /\ exc # "none" /\ run # 0) =>
          store[run].status # "complete"

C4_Witness ==
    /\ pc = "ended"
    /\ exc = "NotImplementedError"
    /\ run = 2
    /\ store[run].status = "started"
    /\ printed = {1, 2}

\* C5: once a setup stage (database connection, add_run, add_run_genomes,
\* creation of the output directories) has failed, the invocation has ended
\* with a non-zero exit status, or is at the one statement that ends it, and
\* no genome has been fragmented.
C5_SetupFailureFatal ==
    failed # "none" =>
        /\ \/ pc = "ended" /\ ExitStatus(exc) # 0
           \/ /\ pc = "log_genome_ids"
              /\ failed = "add_run_genomes"
              /\ genome_ids = Unbound
        /\ gi = 0
        /\ fpc = "idle"
        /\ printed = {}
        /\ genomes = <<>> \/ failed \in {"makedirs", "subdirs"}

C5_Witness ==
    /\ failed = "add_run_genomes"
    /\ pc = "ended"
    /\ exc = "UnboundLocalError"
    /\ invocation = 1

\* C8: a fragment file the caller went on with (its path was returned and
\* printed) is complete; while the loop over the genomes goes on, the files
\* of the genomes before the current one are complete; a call that failed is
\* left by its exception and its genome is not among the printed ones.
C8_NoPartialFileUsed ==
    /\ \A g \in printed : files[g] = "complete"
    /\ pc \in {"frag_loop", "fragmenting"} =>
          \A k \in 1 .. (gi - 1) : files[genomes[k]] = "complete"
    /\ (pc = "fragmenting" /\ fpc = "raised") =>
          /\ fexc # "none"
          /\ CurrentGenome \notin printed
    /\ (pc = "ended" /\ failed = "none" /\ exc \in {"ValueError", "OSError"}) =>
          genomes[gi] \notin printed

C8_Witness ==
    /\ pc = "ended"
    /\ exc = "OSError"
    /\ failed = "none"
    /\ gi = 2
    /\ files[genomes[gi]] = "partial"
    /\ printed = {1}

InLoop == pc = "fragmenting" /\ fpc \in {"for", "while"}

\* C10 (as stated): on every pass of the while loop the offset becomes
\* larger, whatever the fragment size.
C10_OffsetGrowsAnyFragsize ==
    [][count' = count + 1 => idx' > idx]_vars

\* C10 (amended): for a fragment size of at least 1 every pass of the while
\* loop makes the offset larger, and the loops of fragment_fasta_file end.
C10_TerminatesForPositive ==
    /\ [][(fragsize >= 1 /\ count' = count + 1) => idx' > idx]_vars
    /\ (InLoop /\ fragsize >= 1) ~> ~InLoop

C10_Witness ==
    /\ pc = "fragmenting" /\ fpc = "write"
    /\ fragsize = 1
    /\ records = <<3, 2>>
    /\ count = 5

-----------------------------------------------------------------------------
(* The fragment counter of fragment_fasta_file alone.  The records and their *)
(* lengths are left open: the iterator may yield another record, the while  *)
(* loop may make another pass.  Only the counter, the number of fragments   *)
(* appended and the last ID are kept, so that counts beyond 99999 are       *)
(* reached.                                                                 *)

MaxIdRecs == 2
MaxIdCount == 100001

\* count = 0, outseqs = []
IdsInit ==
    /\ IdsIdle
    /\ fragsize = 1 /\ indir = 0
    /\ AnibInit /\ EnumIdle /\ JobsIdle /\ PlotIdle

\* for seq in SeqIO.parse(...): idx = 0
IdsNextRecord ==
    /\ idrecs < MaxIdRecs
    /\ idrecs' = idrecs + 1
    /\ idcount' = CountAtRecord(idcount)
    /\ UNCHANGED <<idfrags, newseq_id>>
    /\ UNCHANGED <<fragsize, indir, enumVars, jobsVars, plotVars>>
    /\ UNCHANGED <<pc, exc, session, run, genome_ids, genomes, gi, printed,
                   failed, store, files, invocation, outcomes, fragVars>>

\* count += 1; newseq.id = f"frag{count:05d}"; outseqs.append(newseq)
IdsEmit ==
    /\ idrecs >= 1
    /\ idcount < MaxIdCount
    /\ idcount' = idcount + 1
    /\ newseq_id' = Bound(FragId(idcount + 1))
    /\ idfrags' = idfrags + 1
    /\ UNCHANGED idrecs
    /\ UNCHANGED <<fragsize, indir, enumVars, jobsVars, plotVars>>
    /\ UNCHANGED <<pc, exc, session, run, genome_ids, genomes, gi, printed,
                   failed, store, files, invocation, outcomes, fragVars>>

IdsNext ==
    \/ IdsNextRecord
    \/ IdsEmit

SpecIds == IdsInit /\ [][IdsNext]_vars

RECURSIVE Pow10(_)
Pow10(k) == IF k = 0 THEN 1 ELSE 10 * Pow10(k - 1)

\* the last fragment appended is fragment number idfrags, and its ID is
\* "frag" and the decimal digits of that number
LastIdNumbers(k) ==
    /\ newseq_id # Unbound
    /\ newseq_id[1].prefix = "frag"
    /\ \A d \in 1 .. Len(newseq_id[1].digits) : newseq_id[1].digits[d] \in 0 .. 9
    /\ DigitsValue(newseq_id[1].digits) = k

\* C7 (as stated): the k-th fragment of a genome has number k, the counter
\* starting at 1 and never reset between records, and every ID is that number
\* zero-padded to one fixed width.
C7_FixedWidthIds ==
    /\ idcount = idfrags
    /\ idfrags >= 1 =>
          /\ LastIdNumbers(idfrags)
          /\ Len(newseq_id[1].digits) = IDWidth

\* C7 (amended): the k-th fragment of a genome has number k, the counter
\* starting at 1 and never reset between records; the ID is that number
\* zero-padded to at least five digits: five digits up to 99999, and the
\* digits of the number itself, six or more, from 100000 on.
C7_CounterAndMinWidthIds ==
    /\ idcount = idfrags
    /\ idfrags >= 1 =>
          /\ LastIdNumbers(idfrags)
          /\ Len(newseq_id[1].digits) =
                IF idfrags < Pow10(IDWidth) THEN IDWidth
                ELSE Len(Digits(idfrags))
          /\ idfrags >= Pow10(IDWidth) => newseq_id[1].digits[1] # 0

C7_Witness ==
    /\ idrecs = 2
    /\ idfrags = 100000
    /\ newseq_id = Bound([prefix |-> "frag", digits |-> <<1, 0, 0, 0, 0, 0>>])

-----------------------------------------------------------------------------
(* The enumeration of comparisons: list(permutations(genomes, 2)) *)

MaxEnumGenomes == 4

\* the lists of distinct genomes (rows of the database) of length n
InjectiveSeqs(S, n) ==
    {q \in [1 .. n -> S] : \A i, j \in 1 .. n : q[i] = q[j] => i = j}

\* a variant: itertools.product(pool, repeat=2), every pair of positions
RECURSIVE Product2From(_, _, _)
Product2From(pool, i, j) ==
    IF i > Len(pool) THEN <<>>
    ELSE IF j > Len(pool) THEN Product2From(pool, i + 1, 1)
    ELSE <<<<pool[i], pool[j]>>>> \o Product2From(pool, i, j + 1)

\* itertools.permutations(pool, 2): the pairs of elements at two different
\* positions of pool, in the order of the positions
RECURSIVE Permutations2From(_, _, _)
Permutations2From(pool, i, j) ==
    IF i > Len(pool) THEN <<>>
    ELSE IF j > Len(pool) THEN Permutations2From(pool, i + 1, 1)
    ELSE (IF i # j THEN <<<<pool[i], pool[j]>>>> ELSE <<>>)
            \o Permutations2From(pool, i, j + 1)

Product2(pool) == Product2From(pool, 1, 1)
Permutations2(pool) == Permutations2From(pool, 1, 1)

\* genomes = run.genomes.all()
EnumInit ==
    /\ \E n \in 0 .. MaxEnumGenomes :
          enum_genomes \in InjectiveSeqs(1 .. MaxEnumGenomes, n)
    /\ comparisons = Unbound
    /\ fragsize = 1 /\ indir = 0
    /\ AnibInit /\ IdsIdle /\ JobsIdle /\ PlotIdle

\* comparisons = list(permutations(tqdm(genomes, ...), 2))
Enumerate ==
    /\ comparisons = Unbound
    /\ comparisons' = Bound(Permutations2(enum_genomes))
    /\ UNCHANGED enum_genomes
    /\ UNCHANGED <<fragsize, indir, idsVars, jobsVars, plotVars>>
    /\ UNCHANGED <<pc, exc, session, run, genome_ids, genomes, gi, printed,
                   failed, store, files, invocation, outcomes, fragVars>>

EnumNext == Enumerate

SpecEnum == EnumInit /\ [][EnumNext]_vars

-----------------------------------------------------------------------------
(* generate_joblist *)

MaxJobGenomes == 3

\* Python's None
None == <<>>

JobPairs ==
    {<<q, s>> \in (1 .. MaxJobGenomes) \X (1 .. MaxJobGenomes) : q # s}

\* the arguments subcmd_anib passes: the comparisons still to run, and the
\* existing output files (None without args.recovery), each named by its
\* (query, reference) pair
JobsInit ==
    /\ jpc = "call"
    /\ comparisons_to_run \in SUBSET JobPairs
    /\ existingfiles \in {None} \cup {Bound(S) : S \in SUBSET JobPairs}
    /\ joblist = Unbound
    /\ jexc = "none"
    /\ fragsize = 1 /\ indir = 0
    /\ AnibInit /\ IdsIdle /\ EnumIdle /\ PlotIdle

\* joblist = generate_joblist(comparisons_to_run, existingfiles, ...):
\* the body is raise NotImplementedError
GenerateJoblist ==
    /\ jpc = "call"
    /\ jexc' = "NotImplementedError"
    /\ jpc' = "raised"
    /\ UNCHANGED <<comparisons_to_run, existingfiles, joblist>>
    /\ UNCHANGED <<fragsize, indir, idsVars, enumVars, plotVars>>
    /\ UNCHANGED <<pc, exc, session, run, genome_ids, genomes, gi, printed,
                   failed, store, files, invocation, outcomes, fragVars>>

JobsNext == GenerateJoblist

SpecJobs == JobsInit /\ [][JobsNext]_vars

\* C6: the call of generate_joblist gives a job list; with recovery the jobs
\* are the comparisons to run that have no existing output file, without
\* recovery (existingfiles is None) they are all the comparisons to run.
C6_RecoveredJobsExcluded ==
    jpc # "call" =>
        /\ jexc = "none"
        /\ joblist # Unbound
        /\ joblist[1] = IF existingfiles = None THEN comparisons_to_run
                        ELSE comparisons_to_run \ existingfiles[1]

-----------------------------------------------------------------------------
(* subcmd_plot, write_run_heatmaps *)

MaxPlotIds == 2
MaxRunId == 11

\* strings are sequences of characters
DigitChars == <<"0", "1", "2", "3", "4", "5", "6", "7", "8", "9">>

IsDigit(ch) == \E d \in 1 .. 10 : DigitChars[d] = ch
DigitOf(ch) == (CHOOSE d \in 1 .. 10 : DigitChars[d] = ch) - 1

\* str(n)
Str(n) == [k \in 1 .. Len(Digits(n)) |-> DigitChars[Digits(n)[k] + 1]]

\* ",".join(str(n) for n in ids)
RECURSIVE JoinIds(_)
JoinIds(ids) ==
    IF Len(ids) = 0 THEN <<>>
    ELSE IF Len(ids) = 1 THEN Str(ids[1])
    ELSE Str(ids[1]) \o <<",">> \o JoinIds(Tail(ids))

\* s.split(","): the pieces between the commas
RECURSIVE SplitFrom(_, _, _)
SplitFrom(str, k, piece) ==
    IF k > Len(str) THEN <<piece>>
    ELSE IF str[k] = "," THEN <<piece>> \o SplitFrom(str, k + 1, <<>>)
    ELSE SplitFrom(str, k + 1, Append(piece, str[k]))

Split(str) == SplitFrom(str, 1, <<>>)

IsNumeral(str) == Len(str) > 0 /\ \A k \in 1 .. Len(str) : IsDigit(str[k])

\* int(s), for a string of digits
IntOf(str) == DigitsValue([k \in 1 .. Len(str) |-> DigitOf(str[k])])

\* the database holds the runs 1 .. MaxRunId, each with its matrices
DbRuns == 1 .. MaxRunId

\* Run.run_id == key, an INTEGER column compared with a bound string: the
\* string is compared as a number when it is a numeral, and equals no integer
\* otherwise
RunIdEquals(runid, key) == IsNumeral(key) /\ runid = IntOf(key)

\* session.query(Run).filter(Run.run_id == key).first()
QueryFirst(key) ==
    LET hits == {r \in DbRuns : RunIdEquals(r, key)}
    IN  IF hits = {} THEN None
        ELSE Bound(CHOOSE r \in hits : \A o \in hits : r <= o)

MatrixNames == {"identity", "coverage", "aln_lengths", "sim_errors", "hadamard"}

PlotInit ==
    /\ ppc = "start"
    /\ pexc = "none"
    /\ \E n \in 1 .. MaxPlotIds :
          \E ids \in [1 .. n -> DbRuns] : args_run_id = JoinIds(ids)
    /\ run_ids = <<>>
    /\ ri = 0
    /\ calls = <<>>
    /\ outfiles = {}
    /\ fragsize = 1 /\ indir = 0
    /\ AnibInit /\ IdsIdle /\ EnumIdle /\ JobsIdle

PlotUnchanged ==
    /\ UNCHANGED <<fragsize, indir, idsVars, enumVars, jobsVars>>
    /\ UNCHANGED <<pc, exc, session, run, genome_ids, genomes, gi, printed,
                   failed, store, files, invocation, outcomes, fragVars>>

\* run_ids = [int(run) for run in args.run_id.split(",")]
PlotParseRunIds ==
    /\ ppc = "start"
    /\ LET pieces == Split(args_run_id)
       IN  IF \A k \in 1 .. Len(pieces) : IsNumeral(pieces[k])
           THEN /\ run_ids' = [k \in 1 .. Len(pieces) |-> IntOf(pieces[k])]
                /\ ri' = 1
                /\ ppc' = "loop"
                /\ UNCHANGED pexc
           ELSE /\ pexc' = "ValueError"
                /\ ppc' = "ended"
                /\ UNCHANGED <<run_ids, ri>>
    /\ UNCHANGED <<args_run_id, calls, outfiles>>
    /\ PlotUnchanged

\* a variant: the run is looked up with the run_id parameter
QueryKeyIsParameter(run_id) == Str(run_id)
\* the key write_run_heatmaps looks the run up with: args.run_id
QueryKey(run_id) == args_run_id

\* for run_id in run_ids: write_run_heatmaps(run_id, session, outfmts, ...)
WriteRunHeatmaps ==
    /\ ppc = "loop"
    /\ ri <= Len(run_ids)
    /\ LET run_id == run_ids[ri]
           results == QueryFirst(QueryKey(run_id))
           call == [run_id |-> run_id, results |-> results,
                    labels_for |-> QueryKey(run_id),
                    classes_for |-> QueryKey(run_id)]
       IN  /\ calls' = Append(calls, call)
           /\ IF results = None
              THEN \* results.df_identity: None has no such attribute
                   /\ pexc' = "AttributeError"
                   /\ ppc' = "ended"
                   /\ UNCHANGED <<ri, outfiles>>
              ELSE /\ outfiles' = outfiles \cup
                          {[kind |-> k, name |-> m, run |-> run_id,
                            data |-> results[1]] :
                              k \in {"matrix", "distribution"}, m \in MatrixNames}
                   /\ ri' = ri + 1
                   /\ UNCHANGED <<ppc, pexc>>
    /\ UNCHANGED <<args_run_id, run_ids>>
    /\ PlotUnchanged

\* return 0
PlotReturn ==
    /\ ppc = "loop"
    /\ ri > Len(run_ids)
    /\ ppc' = "ended"
    /\ UNCHANGED <<pexc, args_run_id, run_ids, ri, calls, outfiles>>
    /\ PlotUnchanged

PlotNext ==
    \/ PlotParseRunIds
    \/ WriteRunHeatmaps
    \/ PlotReturn

SpecPlot == PlotInit /\ [][PlotNext]_vars

\* C9: the calls of write_run_heatmaps are those of the run IDs of the list,
\* in order, once each when subcmd_plot has ended; each call got the matrices
\* of the run of its run_id parameter and asked for the labels and classes of
\* that run; each file named for a run holds the data of that run.
C9_EachCallUsesItsRun ==
    /\ Len(calls) <= Len(run_ids)
    /\ \A k \in 1 .. Len(calls) :
          /\ calls[k].run_id = run_ids[k]
          /\ calls[k].results = Bound(calls[k].run_id)
          /\ calls[k].labels_for = Str(calls[k].run_id)
          /\ calls[k].classes_for = Str(calls[k].run_id)
    /\ \A f \in outfiles : f.data = f.run
    /\ ppc = "ended" => Len(calls) = Len(run_ids)

====
